---- MODULE Spec2Model ----
(***************************************************************************)
(* gammazero/channelqueue: a queue between an input and an output channel, *)
(* served by one goroutine (bufferData, ringBufferData or oneBufferData).  *)
(* Channels follow Go's semantics: an unbuffered channel is a rendezvous,  *)
(* a send on a closed channel panics, a receive on a closed and empty      *)
(* channel yields (zero, false), close of a closed channel panics.         *)
(***************************************************************************)
EXTENDS Integers, Sequences, FiniteSets, TLC

\* ---------------------------------------------------------------- bounds
\* Items one producer tries to write.
MaxItems == 3
\* Largest capacity handed to WithCapacity (0 asks for "no limit").
MaxCap == 2
\* Largest cap(in) of a channel handed to WithInput (0: unbuffered, as a
\* freshly made one is).
MaxInCap == 1
\* Calls of Close() on the handle.
MaxCloses == 2
\* Items each producer tries to write where two producers run.
MaxEach == 2
\* Calls of Shutdown() on the handle, one after the other.
MaxShutdowns == 2

\* ------------------------------------------------------------- constants
\* The capacity TestCapLen asks for: cq.WithCapacity[int](3).
TestCap == 3

\* ------------------------------------------------------------ primitives
\* A nil channel variable of the goroutine: its select case is never ready.
NIL == "nil"
\* The zero value of T (items written are 1, 2, ...).
zero == 0

\* Goroutines that may write to In() and read from Out(); the second of each
\* runs only where an initial state starts it.
Producers == {1, 2}
Consumers == {1, 2}

\* The i-th item producer p writes (no two writes carry the same value).
Item(p, i) == (p - 1) * MaxItems + i

\* deque.Deque[T] as a sequence, front first.
PushBack(buffer, elem) == Append(buffer, elem)
PopFront(buffer) == Tail(buffer)
Front(buffer) == Head(buffer)

IsPrefix(s, t) == Len(s) <= Len(t) /\ SubSeq(t, 1, Len(s)) = s
\* The last n elements of s (all of s when it is shorter).
LastN(s, n) == IF Len(s) <= n THEN s ELSE SubSeq(s, Len(s) - n + 1, Len(s))
Range(s) == {s[i] : i \in 1..Len(s)}

VARIABLES
    capacity,       \* cq.capacity: -1 (no limit) or >= 1
    policy,         \* the goroutine New / NewRing started
    cqInput,        \* the channel cq.input: [closed, buf, cap]
    cqOutput,       \* the channel cq.output: [closed]
    cqLength,       \* the channel cq.length: [closed]
    closeOnce,      \* cq.closeOnce has run
    co,             \* the goroutine's locals and position
    co2,            \* a second goroutine run side by side (SpecEq only)
    prod,           \* producers: [pc, n, late]
    cons,           \* consumers: "idle" | "receiving" | "eos"
    lenq,           \* the Len() caller: [pc, result]
    accepted,       \* history: items the goroutine received from cq.input
    delivered,      \* history: items handed to a consumer, in order
    atClose,        \* history: snapshot when cq.input was closed
    closeCalls,     \* history: calls of Close() so far
    inputCloses,    \* history: times close(cq.input) was executed
    closePanic,     \* history: a close of a closed channel happened
    observedClosed, \* history: times the goroutine saw cq.input closed
    opts,           \* the constructor call: [ctor, req, withInput, withOutput,
                    \*   input, output, items]
    got,            \* history: items each consumer received, in order
    shut,           \* the Shutdown() caller: [pc, drained, calls]
    lenAt,          \* history, kept where an initial state switches it on:
                    \*   completed writes and reads when Len() was answered
    dbl             \* TestDouble's second queue recvCh, the goroutine that
                    \*   forwards to it and its reader: [capacity, co,
                    \*   inClosed, outClosed, fwd, out, rd]

vars == <<capacity, policy, cqInput, cqOutput, cqLength, closeOnce, co, co2,
          prod, cons, lenq, accepted, delivered, atClose, closeCalls,
          inputCloses, closePanic, observedClosed, opts, got, shut, lenAt,
          dbl>>

\* ---------------------------------------------------------- construction
\* WithCapacity that lets 0 through (n < 0 for n < 1).
WithCapacityNegative(n) == IF n < 0 THEN -1 ELSE n

\* WithCapacity(n): a value below 1 configures no limit.
WithCapacity(n) == IF n < 1 THEN -1 ELSE n

\* The goroutine a constructor starts for the (normalised) capacity c.
StartedBy(ctor, c) ==
    IF ctor = "New" THEN "bufferData"
    ELSE IF c < 1 THEN "bufferData"
    ELSE IF c = 1 THEN "oneBufferData"
    ELSE "ringBufferData"

\* if cq.input == nil { cq.input = make(chan T) }, and the same for output:
\* an option that was not given (or was given nil) leaves the field nil.
Made(ch) == IF ch = NIL THEN "made" ELSE ch

\* New with capacity c (already normalised) and the channels of WithInput and
\* WithOutput (NIL: option absent): the fields of the handle it returns.
New(c, in, out) ==
    [capacity |-> c, policy |-> StartedBy("New", c),
     input |-> Made(in), output |-> Made(out)]

\* NewRing without the hand-over to New: a ring goroutine at any capacity.
NewRingAlwaysRing(c, in, out) ==
    [capacity |-> c,
     policy |-> IF c = 1 THEN "oneBufferData" ELSE "ringBufferData",
     input |-> Made(in), output |-> Made(out)]

\* NewRing: below capacity 1 it returns New(WithInput(cq.input)), which
\* passes on neither the capacity nor the output channel.
NewRing(c, in, out) ==
    IF c < 1
    THEN New(-1, in, NIL)
    ELSE [capacity |-> c, policy |-> StartedBy("NewRing", c),
          input |-> Made(in), output |-> Made(out)]

\* The handle constructor ctor returns for WithCapacity(n) and the channels.
Construct(ctor, n, in, out) ==
    IF ctor = "New" THEN New(WithCapacity(n), in, out)
                    ELSE NewRing(WithCapacity(n), in, out)

\* The constructor call and the channels cq.input and cq.output ended up as;
\* items is the number of writes each producer attempts.
Options(ctor, n, in, out, items) ==
    [ctor |-> ctor, req |-> n, withInput |-> in # NIL, withOutput |-> out # NIL,
     input |-> Construct(ctor, n, in, out).input,
     output |-> Construct(ctor, n, in, out).output,
     items |-> items]

\* Locals of a goroutine at its first select.
NewCoord ==
    [pc |-> "select", input |-> "cq.input", inputChan |-> "cq.input",
     output |-> NIL, next |-> zero, buffer |-> <<>>, bufLen |-> 0]

\* A goroutine that is not run.
NoCoord ==
    [pc |-> "none", input |-> NIL, inputChan |-> NIL,
     output |-> NIL, next |-> zero, buffer |-> <<>>, bufLen |-> 0]

NoLenAt == [on |-> FALSE, w |-> 0, r |-> 0]

\* One producer and one consumer; the others are never started.
OneEach ==
    /\ prod = [p \in Producers |->
                 [pc |-> IF p = 1 THEN "idle" ELSE "off", n |-> 0, late |-> FALSE]]
    /\ cons = [c \in Consumers |-> IF c = 1 THEN "idle" ELSE "off"]

\* Two producers and two consumers on the same handle.
TwoEach ==
    /\ prod = [p \in Producers |-> [pc |-> "idle", n |-> 0, late |-> FALSE]]
    /\ cons = [c \in Consumers |-> "idle"]

\* recvCh with capacity c before anything was forwarded to it.
NewDouble(c) ==
    [capacity |-> c, co |-> NewCoord, inClosed |-> FALSE, outClosed |-> FALSE,
     fwd |-> 0, out |-> <<>>, rd |-> "receiving"]

InitCommon ==
    /\ cqOutput = [closed |-> FALSE]
    /\ cqLength = [closed |-> FALSE]
    /\ closeOnce = FALSE
    /\ co = NewCoord
    /\ got = [c \in Consumers |-> <<>>]
    /\ shut = [pc |-> "idle", drained |-> 0, calls |-> 0]
    /\ lenq = [pc |-> "idle", result |-> -1]
    /\ accepted = <<>>
    /\ delivered = <<>>
    /\ atClose = [taken |-> FALSE, buffer |-> <<>>, pending |-> <<>>,
                  delivered |-> 0, reading |-> FALSE]
    /\ closeCalls = 0
    /\ inputCloses = 0
    /\ closePanic = FALSE
    /\ observedClosed = 0

\* ------------------------------------------------------------ bufferData
\* bufferDataRecv with the item put at the front of the deque.
bufferDataRecvFront(s, elem, open) ==
    IF open
    THEN [s EXCEPT !.buffer = <<elem>> \o @]
    ELSE [s EXCEPT !.input = NIL, !.inputChan = NIL]

\* bufferDataRecv that forgets inputChan = nil when it sees the close.
bufferDataRecvKeepChan(s, elem, open) ==
    IF open
    THEN [s EXCEPT !.buffer = PushBack(@, elem)]
    ELSE [s EXCEPT !.input = NIL]

\* bufferDataRecv that throws away what it holds when it sees the close.
bufferDataRecvCloseDrops(s, elem, open) ==
    IF open
    THEN [s EXCEPT !.buffer = PushBack(@, elem)]
    ELSE [s EXCEPT !.input = NIL, !.inputChan = NIL, !.buffer = <<>>]

\* case elem, open := <-input
bufferDataRecv(s, elem, open) ==
    IF open
    THEN [s EXCEPT !.buffer = PushBack(@, elem)]
    ELSE [s EXCEPT !.input = NIL, !.inputChan = NIL]

\* bufferDataSent that leaves the sent item in the deque.
bufferDataSentNoPop(s) == s

\* case output <- next
bufferDataSent(s) == [s EXCEPT !.buffer = PopFront(@)]

\* bufferDataAfter with the capacity test off by one (> for >=).
bufferDataAfterOffByOne(s, cap) ==
    LET a == IF Len(s.buffer) = 0
             THEN [s EXCEPT !.output = NIL, !.next = zero]
             ELSE [s EXCEPT !.output = "cq.output", !.next = Front(s.buffer)]
    IN  IF cap # -1
        THEN IF Len(a.buffer) > cap
             THEN [a EXCEPT !.input = NIL]
             ELSE [a EXCEPT !.input = a.inputChan]
        ELSE a

\* bufferDataAfter that stops accepting input only while output is idle.
bufferDataAfterNoLimit(s, cap) ==
    IF Len(s.buffer) = 0
    THEN [s EXCEPT !.output = NIL, !.next = zero, !.input = s.inputChan]
    ELSE [s EXCEPT !.output = "cq.output", !.next = Front(s.buffer),
                   !.input = s.inputChan]

\* bufferDataAfter that never selects on input again once it stopped.
bufferDataAfterNoResume(s, cap) ==
    LET a == IF Len(s.buffer) = 0
             THEN [s EXCEPT !.output = NIL, !.next = zero]
             ELSE [s EXCEPT !.output = "cq.output", !.next = Front(s.buffer)]
    IN  IF cap # -1 /\ Len(a.buffer) >= cap THEN [a EXCEPT !.input = NIL] ELSE a

\* bufferDataAfter that refreshes next only when it switches output on.
bufferDataAfterStaleNext(s, cap) ==
    LET a == IF Len(s.buffer) = 0
             THEN [s EXCEPT !.output = NIL, !.next = zero]
             ELSE [s EXCEPT !.output = "cq.output",
                            !.next = IF s.output = NIL THEN Front(s.buffer)
                                                       ELSE @]
    IN  IF cap # -1
        THEN IF Len(a.buffer) >= cap
             THEN [a EXCEPT !.input = NIL]
             ELSE [a EXCEPT !.input = a.inputChan]
        ELSE a

\* bufferDataAfter that never switches the output case on.
bufferDataAfterNoOffer(s, cap) ==
    IF cap # -1
    THEN IF Len(s.buffer) >= cap
         THEN [s EXCEPT !.input = NIL]
         ELSE [s EXCEPT !.input = s.inputChan]
    ELSE s

\* After the select: choose what the next select offers.
bufferDataAfter(s, cap) ==
    LET a == IF Len(s.buffer) = 0
             THEN [s EXCEPT !.output = NIL, !.next = zero]
             ELSE [s EXCEPT !.output = "cq.output", !.next = Front(s.buffer)]
    IN  IF cap # -1
        THEN IF Len(a.buffer) >= cap
             THEN [a EXCEPT !.input = NIL]
             ELSE [a EXCEPT !.input = a.inputChan]
        ELSE a

\* -------------------------------------------------------- ringBufferData
\* ringBufferDataRecv with the eviction test off by one (>= for >).
ringBufferDataRecvEvictEarly(s, elem, open, cap) ==
    IF open
    THEN LET pushed == PushBack(s.buffer, elem)
         IN  [s EXCEPT !.buffer = IF Len(pushed) >= cap THEN PopFront(pushed)
                                                         ELSE pushed]
    ELSE [s EXCEPT !.input = NIL]

\* ringBufferDataRecv that leaves the eviction for later: the deque holds
\* capacity + 1 items at the next select.
ringBufferDataRecvNoEvict(s, elem, open, cap) ==
    IF open
    THEN [s EXCEPT !.buffer = IF Len(@) > cap THEN PushBack(PopFront(@), elem)
                                               ELSE PushBack(@, elem)]
    ELSE [s EXCEPT !.input = NIL]

\* ringBufferDataRecv that drops the new item, not the oldest, when full.
ringBufferDataRecvDropNew(s, elem, open, cap) ==
    IF open
    THEN [s EXCEPT !.buffer = IF Len(@) >= cap THEN @ ELSE PushBack(@, elem)]
    ELSE [s EXCEPT !.input = NIL]

\* case elem, open := <-input
ringBufferDataRecv(s, elem, open, cap) ==
    IF open
    THEN LET pushed == PushBack(s.buffer, elem)
         IN  [s EXCEPT !.buffer = IF Len(pushed) > cap THEN PopFront(pushed)
                                                        ELSE pushed]
    ELSE [s EXCEPT !.input = NIL]

ringBufferDataSent(s) == [s EXCEPT !.buffer = PopFront(@)]

\* ringBufferDataAfter with bufferData's backpressure left in.
ringBufferDataAfterLimit(s) ==
    LET a == IF Len(s.buffer) = 0
             THEN [s EXCEPT !.output = NIL, !.next = zero]
             ELSE [s EXCEPT !.output = "cq.output", !.next = Front(s.buffer)]
    IN  IF Len(a.buffer) >= capacity THEN [a EXCEPT !.input = NIL] ELSE a

\* ringBufferDataAfter that sets next only when it switches output on, so an
\* item already offered stays offered after it was evicted.
ringBufferDataAfterStaleNext(s) ==
    IF Len(s.buffer) = 0
    THEN [s EXCEPT !.output = NIL, !.next = zero]
    ELSE [s EXCEPT !.output = "cq.output",
                   !.next = IF s.output = NIL THEN Front(s.buffer) ELSE @]

ringBufferDataAfter(s) ==
    IF Len(s.buffer) = 0
    THEN [s EXCEPT !.output = NIL, !.next = zero]
    ELSE [s EXCEPT !.output = "cq.output", !.next = Front(s.buffer)]

\* --------------------------------------------------------- oneBufferData
\* oneBufferDataRecv that keeps the item it holds and drops the new one.
oneBufferDataRecvKeep(s, elem, open) ==
    IF open
    THEN [s EXCEPT !.next = IF s.bufLen = 1 THEN @ ELSE elem, !.bufLen = 1,
                   !.output = "cq.output"]
    ELSE [s EXCEPT !.input = NIL]

oneBufferDataRecv(s, elem, open) ==
    IF open
    THEN [s EXCEPT !.next = elem, !.bufLen = 1, !.output = "cq.output"]
    ELSE [s EXCEPT !.input = NIL]

oneBufferDataSent(s) ==
    [s EXCEPT !.bufLen = 0, !.next = zero, !.output = NIL]

\* ------------------------------------------------- the three goroutines
\* LoopTest that looks at input only: for input != nil { ... }
LoopTestInputOnly(s) ==
    [s EXCEPT !.pc = IF s.input # NIL THEN "select" ELSE "closeOutput"]

\* LoopTest that looks at output alone: for output != nil.
LoopTestOutputOnly(s) ==
    [s EXCEPT !.pc = IF s.output # NIL THEN "select" ELSE "closeOutput"]

\* for input != nil || output != nil { ... } close(cq.output) ...
LoopTest(s) ==
    [s EXCEPT !.pc = IF s.input # NIL \/ s.output # NIL THEN "select"
                                                         ELSE "closeOutput"]

\* The body of the receive case of goroutine pol.
Recv(pol, cap, s, elem, open) ==
    CASE pol = "bufferData"     -> bufferDataRecv(s, elem, open)
      [] pol = "ringBufferData" -> ringBufferDataRecv(s, elem, open, cap)
      [] pol = "oneBufferData"  -> oneBufferDataRecv(s, elem, open)

\* The body of the send case of goroutine pol.
Sent(pol, s) ==
    CASE pol = "bufferData"     -> bufferDataSent(s)
      [] pol = "ringBufferData" -> ringBufferDataSent(s)
      [] pol = "oneBufferData"  -> oneBufferDataSent(s)

\* The statements between the select and the loop test.
After(pol, cap, s) ==
    CASE pol = "bufferData"     -> bufferDataAfter(s, cap)
      [] pol = "ringBufferData" -> ringBufferDataAfter(s)
      [] pol = "oneBufferData"  -> s

\* LengthValue that reads bufLen in every goroutine (only oneBufferData
\* maintains it).
LengthValueBufLen(pol, s) == s.bufLen

\* The value offered on cq.length: buffer.Len(), or bufLen.
LengthValue(pol, s) == IF pol = "oneBufferData" THEN s.bufLen ELSE Len(s.buffer)

\* The items goroutine pol holds, oldest first.
Buffered(pol, s) ==
    IF pol = "oneBufferData"
    THEN IF s.bufLen = 1 THEN <<s.next>> ELSE <<>>
    ELSE s.buffer

\* The second goroutine, when one is run, is ringBufferData on the same
\* handle and takes the same step.
Shadow(s) == IF co2.pc = "none" THEN co2 ELSE s

\* A channel with a buffer of its own was made by the caller and handed to
\* WithInput; the constructor makes unbuffered ones. NewRing below capacity 1
\* hands over to New, so that call is left to InitOpts.
Init ==
    /\ \E ctor \in {"New", "NewRing"}, n \in 0..MaxCap, ic \in 0..MaxInCap :
          LET in == IF ic > 0 THEN "in" ELSE NIL
          IN  /\ ctor = "NewRing" => n >= 1
              /\ capacity = Construct(ctor, n, in, NIL).capacity
              /\ policy = Construct(ctor, n, in, NIL).policy
              /\ opts = Options(ctor, n, in, NIL, MaxItems)
              /\ cqInput = [closed |-> FALSE, buf |-> <<>>, cap |-> ic]
    /\ co2 = NoCoord
    /\ lenAt = NoLenAt
    /\ dbl = NewDouble(-1)
    /\ OneEach
    /\ InitCommon

\* Every constructor call: either constructor, WithCapacity(n) for n from -1
\* (what a call without WithCapacity leaves in cq.capacity) to MaxCap, with
\* or without WithInput(in) and WithOutput(out). A supplied out is unbuffered.
InitOpts ==
    /\ \E ctor \in {"New", "NewRing"}, n \in -1..MaxCap,
          in \in {NIL, "in"}, out \in {NIL, "out"}, ic \in 0..MaxInCap :
          /\ in = NIL => ic = 0
          /\ capacity = Construct(ctor, n, in, out).capacity
          /\ policy = Construct(ctor, n, in, out).policy
          /\ opts = Options(ctor, n, in, out, MaxItems)
          /\ cqInput = [closed |-> FALSE, buf |-> <<>>, cap |-> ic]
    /\ co2 = NoCoord
    /\ lenAt = NoLenAt
    /\ dbl = NewDouble(-1)
    /\ OneEach
    /\ InitCommon

\* Enough writes to fill a queue of capacity n and attempt one more.
ItemsFor(n) == IF n + 1 > MaxItems THEN n + 1 ELSE MaxItems

\* Handles on channels the constructor made itself (both unbuffered), at the
\* capacities up to MaxCap and at TestCap, with the Len() history kept.
InitFresh ==
    /\ \E ctor \in {"New", "NewRing"}, n \in (0..MaxCap) \cup {TestCap} :
          /\ capacity = Construct(ctor, n, NIL, NIL).capacity
          /\ policy = Construct(ctor, n, NIL, NIL).policy
          /\ opts = Options(ctor, n, NIL, NIL, ItemsFor(n))
    /\ cqInput = [closed |-> FALSE, buf |-> <<>>, cap |-> 0]
    /\ co2 = NoCoord
    /\ lenAt = [on |-> TRUE, w |-> 0, r |-> 0]
    /\ dbl = NewDouble(-1)
    /\ OneEach
    /\ InitCommon

\* New at every capacity up to MaxCap, on a made or a supplied input channel,
\* used by two producers and two consumers.
InitMulti ==
    /\ \E n \in 0..MaxCap, ic \in 0..MaxInCap :
          LET in == IF ic > 0 THEN "in" ELSE NIL
          IN  /\ capacity = Construct("New", n, in, NIL).capacity
              /\ policy = Construct("New", n, in, NIL).policy
              /\ opts = Options("New", n, in, NIL, MaxEach)
              /\ cqInput = [closed |-> FALSE, buf |-> <<>>, cap |-> ic]
    /\ co2 = NoCoord
    /\ lenAt = NoLenAt
    /\ dbl = NewDouble(-1)
    /\ TwoEach
    /\ InitCommon

\* Either constructor on a channel the caller made, buffered or not, and
\* handed to WithInput.
InitSupplied ==
    /\ \E ctor \in {"New", "NewRing"}, n \in 0..MaxCap, ic \in 0..MaxInCap :
          /\ ctor = "NewRing" => n >= 1
          /\ capacity = Construct(ctor, n, "in", NIL).capacity
          /\ policy = Construct(ctor, n, "in", NIL).policy
          /\ opts = Options(ctor, n, "in", NIL, MaxItems)
          /\ cqInput = [closed |-> FALSE, buf |-> <<>>, cap |-> ic]
    /\ co2 = NoCoord
    /\ lenAt = NoLenAt
    /\ dbl = NewDouble(-1)
    /\ OneEach
    /\ InitCommon

\* TestDouble: ch and recvCh are both New with a capacity of 1 to MaxCap, on
\* channels the constructor made.
InitDouble ==
    /\ \E n \in 1..MaxCap, m \in 1..MaxCap :
          /\ capacity = Construct("New", n, NIL, NIL).capacity
          /\ policy = Construct("New", n, NIL, NIL).policy
          /\ opts = Options("New", n, NIL, NIL, MaxItems)
          /\ dbl = NewDouble(Construct("New", m, NIL, NIL).capacity)
    /\ cqInput = [closed |-> FALSE, buf |-> <<>>, cap |-> 0]
    /\ co2 = NoCoord
    /\ lenAt = [on |-> FALSE, w |-> 0, r |-> 0]
    /\ OneEach
    /\ InitCommon

\* The two goroutines of SpecEq: oneBufferData as started by NewRing with
\* capacity 1, and ringBufferData run on the same capacity.
InitEq ==
    /\ capacity = 1
    /\ policy = "oneBufferData"
    /\ \E ic \in 0..MaxInCap :
          /\ cqInput = [closed |-> FALSE, buf |-> <<>>, cap |-> ic]
          /\ opts = Options("NewRing", 1, IF ic > 0 THEN "in" ELSE NIL, NIL, MaxItems)
    /\ co2 = NewCoord
    /\ lenAt = NoLenAt
    /\ dbl = NewDouble(-1)
    /\ OneEach
    /\ InitCommon

\* -------------------------------------------------------------- producers
\* The sequence of completed writes (one producer: in write order).
Written == [i \in 1..prod[1].n |-> Item(1, i)]

\* in <- x begins. On a closed channel it panics at once.
WriteStart(p) ==
    /\ prod[p].pc = "idle"
    /\ prod[p].n < opts.items
    /\ prod' = [prod EXCEPT ![p].pc = IF cqInput.closed THEN "panicked"
                                                        ELSE "sending",
                            ![p].late = (closeCalls > 0)]
    /\ UNCHANGED <<capacity, policy, dbl, lenAt, opts, got, shut, cqInput, cqOutput, cqLength, closeOnce,
                   co, co2, cons, lenq, accepted, delivered, atClose,
                   closeCalls, inputCloses, closePanic, observedClosed>>

\* A sender finds room in the channel's own buffer: the send completes.
ChanEnqueue(p) ==
    /\ prod[p].pc = "sending"
    /\ ~cqInput.closed
    /\ Len(cqInput.buf) < cqInput.cap
    /\ cqInput' = [cqInput EXCEPT !.buf = Append(@, Item(p, prod[p].n + 1))]
    /\ prod' = [prod EXCEPT ![p].pc = "idle", ![p].n = @ + 1]
    /\ UNCHANGED <<capacity, policy, dbl, lenAt, opts, got, shut, cqOutput, cqLength, closeOnce,
                   co, co2, cons, lenq, accepted, delivered, atClose,
                   closeCalls, inputCloses, closePanic, observedClosed>>

\* WritePanic that lets the blocked sender go as if its send had completed.
WriteReleased(p) ==
    /\ prod[p].pc = "sending"
    /\ cqInput.closed
    /\ prod' = [prod EXCEPT ![p].pc = "idle", ![p].n = @ + 1]
    /\ UNCHANGED <<capacity, policy, dbl, lenAt, opts, got, shut, cqInput, cqOutput, cqLength, closeOnce,
                   co, co2, cons, lenq, accepted, delivered, atClose,
                   closeCalls, inputCloses, closePanic, observedClosed>>

\* A sender blocked on the channel when it is closed panics.
WritePanic(p) ==
    /\ prod[p].pc = "sending"
    /\ cqInput.closed
    /\ prod' = [prod EXCEPT ![p].pc = "panicked"]
    /\ UNCHANGED <<capacity, policy, dbl, lenAt, opts, got, shut, cqInput, cqOutput, cqLength, closeOnce,
                   co, co2, cons, lenq, accepted, delivered, atClose,
                   closeCalls, inputCloses, closePanic, observedClosed>>

\* The completed writes and reads at the moment a Len() call is answered.
Answered ==
    IF lenAt.on
    THEN [lenAt EXCEPT !.w = prod[1].n + prod[2].n, !.r = Len(delivered)]
    ELSE lenAt

\* -------------------------------------------------- the goroutine's steps
\* CoordRecv in a select that prefers the length case: a sender is served
\* only while no Len() caller waits.
CoordRecvAfterLen(p) ==
    /\ co.pc = "select"
    /\ co.input # NIL
    /\ ~cqInput.closed
    /\ cqInput.buf = <<>>
    /\ prod[p].pc = "sending"
    /\ lenq.pc # "waiting"
    /\ LET elem == Item(p, prod[p].n + 1)
       IN  /\ co' = [Recv(policy, capacity, co, elem, TRUE) EXCEPT !.pc = "update"]
           /\ co2' = Shadow([Recv("ringBufferData", capacity, co2, elem, TRUE)
                               EXCEPT !.pc = "update"])
           /\ accepted' = Append(accepted, elem)
    /\ prod' = [prod EXCEPT ![p].pc = "idle", ![p].n = @ + 1]
    /\ UNCHANGED <<capacity, policy, dbl, lenAt, opts, got, shut, cqInput, cqOutput,
                   cqLength, closeOnce, cons, lenq, delivered, atClose,
                   closeCalls, inputCloses, closePanic, observedClosed>>

\* case elem, open := <-input, open, taking the item straight from a
\* blocked sender (the channel's own buffer is empty).
CoordRecv(p) ==
    /\ co.pc = "select"
    /\ co.input # NIL
    /\ ~cqInput.closed
    /\ cqInput.buf = <<>>
    /\ prod[p].pc = "sending"
    /\ LET elem == Item(p, prod[p].n + 1)
       IN  /\ co' = [Recv(policy, capacity, co, elem, TRUE) EXCEPT !.pc = "update"]
           /\ co2' = Shadow([Recv("ringBufferData", capacity, co2, elem, TRUE)
                               EXCEPT !.pc = "update"])
           /\ accepted' = Append(accepted, elem)
    /\ prod' = [prod EXCEPT ![p].pc = "idle", ![p].n = @ + 1]
    /\ UNCHANGED <<capacity, policy, dbl, lenAt, opts, got, shut, cqInput, cqOutput, cqLength, closeOnce,
                   cons, lenq, delivered, atClose,
                   closeCalls, inputCloses, closePanic, observedClosed>>

\* case elem, open := <-input, open, taking the oldest item of the
\* channel's own buffer (also after the channel was closed).
CoordRecvBuf ==
    /\ co.pc = "select"
    /\ co.input # NIL
    /\ cqInput.buf # <<>>
    /\ LET elem == Head(cqInput.buf)
       IN  /\ co' = [Recv(policy, capacity, co, elem, TRUE) EXCEPT !.pc = "update"]
           /\ co2' = Shadow([Recv("ringBufferData", capacity, co2, elem, TRUE)
                               EXCEPT !.pc = "update"])
           /\ accepted' = Append(accepted, elem)
    /\ cqInput' = [cqInput EXCEPT !.buf = Tail(@)]
    /\ UNCHANGED <<capacity, policy, dbl, lenAt, opts, got, shut, cqOutput, cqLength, closeOnce,
                   prod, cons, lenq, delivered, atClose,
                   closeCalls, inputCloses, closePanic, observedClosed>>

\* case elem, open := <-input, not open: the channel is closed and empty.
CoordRecvClosed ==
    /\ co.pc = "select"
    /\ co.input # NIL
    /\ cqInput.closed
    /\ cqInput.buf = <<>>
    /\ co' = [Recv(policy, capacity, co, zero, FALSE) EXCEPT !.pc = "update"]
    /\ co2' = Shadow([Recv("ringBufferData", capacity, co2, zero, FALSE)
                        EXCEPT !.pc = "update"])
    /\ observedClosed' = observedClosed + 1
    /\ UNCHANGED <<capacity, policy, dbl, lenAt, opts, got, shut, cqInput, cqOutput, cqLength, closeOnce,
                   prod, cons, lenq, accepted, delivered, atClose,
                   closeCalls, inputCloses, closePanic>>

\* case output <- next, with consumer c waiting on cq.output.
CoordSend(c) ==
    /\ co.pc = "select"
    /\ co.output # NIL
    /\ cons[c] = "receiving"
    /\ delivered' = Append(delivered, co.next)
    /\ got' = [got EXCEPT ![c] = Append(@, co.next)]
    /\ cons' = [cons EXCEPT ![c] = "idle"]
    /\ co' = [Sent(policy, co) EXCEPT !.pc = "update"]
    /\ co2' = Shadow([Sent("ringBufferData", co2) EXCEPT !.pc = "update"])
    /\ UNCHANGED <<capacity, policy, dbl, lenAt, opts, shut, cqInput, cqOutput, cqLength, closeOnce,
                   prod, lenq, accepted, atClose,
                   closeCalls, inputCloses, closePanic, observedClosed>>

\* CoordLen whose case also runs the body of the output case.
CoordLenPops ==
    /\ co.pc = "select"
    /\ lenq.pc = "waiting"
    /\ lenq' = [pc |-> "idle", result |-> LengthValue(policy, co)]
    /\ lenAt' = Answered
    /\ co' = [(IF co.output # NIL THEN Sent(policy, co) ELSE co)
                 EXCEPT !.pc = "update"]
    /\ co2' = Shadow([co2 EXCEPT !.pc = "update"])
    /\ UNCHANGED <<capacity, policy, dbl, opts, got, shut, cqInput, cqOutput,
                   cqLength, closeOnce, prod, cons, accepted, delivered,
                   atClose, closeCalls, inputCloses, closePanic, observedClosed>>

\* CoordLen with the length case switched off together with the input
\* case.
CoordLenWhileOpen ==
    /\ co.pc = "select"
    /\ co.input # NIL
    /\ lenq.pc = "waiting"
    /\ lenq' = [pc |-> "idle", result |-> LengthValue(policy, co)]
    /\ lenAt' = Answered
    /\ co' = [co EXCEPT !.pc = "update"]
    /\ co2' = Shadow([co2 EXCEPT !.pc = "update"])
    /\ UNCHANGED <<capacity, policy, dbl, opts, got, shut, cqInput, cqOutput,
                   cqLength, closeOnce, prod, cons, accepted, delivered,
                   atClose, closeCalls, inputCloses, closePanic, observedClosed>>

\* case cq.length <- buffer.Len(), with a Len() caller waiting.
CoordLen ==
    /\ co.pc = "select"
    /\ lenq.pc = "waiting"
    /\ lenq' = [pc |-> "idle", result |-> LengthValue(policy, co)]
    /\ lenAt' = Answered
    /\ co' = [co EXCEPT !.pc = "update"]
    /\ co2' = Shadow([co2 EXCEPT !.pc = "update"])
    /\ UNCHANGED <<capacity, policy, dbl, opts, got, shut, cqInput, cqOutput, cqLength, closeOnce,
                   prod, cons, accepted, delivered, atClose,
                   closeCalls, inputCloses, closePanic, observedClosed>>

\* The statements after the select, and the loop test.
CoordUpdate ==
    /\ co.pc = "update"
    /\ co' = LoopTest(After(policy, capacity, co))
    /\ co2' = Shadow(LoopTest(After("ringBufferData", capacity, co2)))
    /\ UNCHANGED <<capacity, policy, dbl, lenAt, opts, got, shut, cqInput, cqOutput, cqLength, closeOnce,
                   prod, cons, lenq, accepted, delivered, atClose,
                   closeCalls, inputCloses, closePanic, observedClosed>>

\* close(cq.output)
CoordCloseOutput ==
    /\ co.pc = "closeOutput"
    /\ cqOutput' = [cqOutput EXCEPT !.closed = TRUE]
    /\ co' = [co EXCEPT !.pc = "closeLength"]
    /\ co2' = Shadow([co2 EXCEPT !.pc = "closeLength"])
    /\ UNCHANGED <<capacity, policy, dbl, lenAt, opts, got, shut, cqInput, cqLength, closeOnce,
                   prod, cons, lenq, accepted, delivered, atClose,
                   closeCalls, inputCloses, closePanic, observedClosed>>

\* CoordCloseLength without the close: the goroutine just returns.
CoordReturnOnly ==
    /\ co.pc = "closeLength"
    /\ co' = [co EXCEPT !.pc = "done"]
    /\ co2' = Shadow([co2 EXCEPT !.pc = "done"])
    /\ UNCHANGED <<capacity, policy, dbl, lenAt, opts, got, shut, cqInput, cqOutput,
                   cqLength, closeOnce, prod, cons, lenq, accepted, delivered,
                   atClose, closeCalls, inputCloses, closePanic, observedClosed>>

\* close(cq.length), and the goroutine returns.
CoordCloseLength ==
    /\ co.pc = "closeLength"
    /\ cqLength' = [cqLength EXCEPT !.closed = TRUE]
    /\ co' = [co EXCEPT !.pc = "done"]
    /\ co2' = Shadow([co2 EXCEPT !.pc = "done"])
    /\ UNCHANGED <<capacity, policy, dbl, lenAt, opts, got, shut, cqInput, cqOutput, closeOnce,
                   prod, cons, lenq, accepted, delivered, atClose,
                   closeCalls, inputCloses, closePanic, observedClosed>>

\* -------------------------------------------------------------- consumers
\* <-cq.Out() begins.
ReadStart(c) ==
    /\ cons[c] = "idle"
    /\ cons' = [cons EXCEPT ![c] = "receiving"]
    /\ UNCHANGED <<capacity, policy, dbl, lenAt, opts, got, shut, cqInput, cqOutput, cqLength, closeOnce,
                   co, co2, prod, lenq, accepted, delivered, atClose,
                   closeCalls, inputCloses, closePanic, observedClosed>>

\* A receive on the closed cq.output: end of stream.
ReadEOS(c) ==
    /\ cons[c] = "receiving"
    /\ cqOutput.closed
    /\ cons' = [cons EXCEPT ![c] = "eos"]
    /\ UNCHANGED <<capacity, policy, dbl, lenAt, opts, got, shut, cqInput, cqOutput, cqLength, closeOnce,
                   co, co2, prod, lenq, accepted, delivered, atClose,
                   closeCalls, inputCloses, closePanic, observedClosed>>

\* ------------------------------------------------------------------ Len()
\* return <-cq.length begins.
LenStart ==
    /\ lenq.pc = "idle"
    /\ lenq' = [lenq EXCEPT !.pc = "waiting"]
    /\ UNCHANGED <<capacity, policy, dbl, lenAt, opts, got, shut, cqInput, cqOutput, cqLength, closeOnce,
                   co, co2, prod, cons, accepted, delivered, atClose,
                   closeCalls, inputCloses, closePanic, observedClosed>>

\* A receive on the closed cq.length yields the zero value.
LenClosed ==
    /\ lenq.pc = "waiting"
    /\ cqLength.closed
    /\ lenq' = [pc |-> "idle", result |-> 0]
    /\ lenAt' = Answered
    /\ UNCHANGED <<capacity, policy, dbl, opts, got, shut, cqInput, cqOutput, cqLength, closeOnce,
                   co, co2, prod, cons, accepted, delivered, atClose,
                   closeCalls, inputCloses, closePanic, observedClosed>>

\* ------------------------------------------------------------------ Cap()
\* return cq.capacity
Cap == capacity

\* ---------------------------------------------------------------- Close()
\* closeInput that closes nothing (say, the wrong channel variable).
closeInputOther ==
    /\ inputCloses' = inputCloses + 1
    /\ atClose' = [taken |-> TRUE, buffer |-> Buffered(policy, co),
                   pending |-> cqInput.buf, delivered |-> Len(delivered),
                   reading |-> (cons[1] = "receiving")]
    /\ UNCHANGED <<cqInput, closePanic>>

\* The builtin close(cq.input): a second close of a channel panics.
closeInput ==
    IF cqInput.closed
    THEN /\ closePanic' = TRUE
         /\ UNCHANGED <<cqInput, atClose, inputCloses>>
    ELSE /\ cqInput' = [cqInput EXCEPT !.closed = TRUE]
         /\ inputCloses' = inputCloses + 1
         /\ atClose' = [taken |-> TRUE, buffer |-> Buffered(policy, co),
                        pending |-> cqInput.buf, delivered |-> Len(delivered),
                        reading |-> (cons[1] = "receiving")]
         /\ UNCHANGED closePanic

\* Close as it was before closeOnce: close(cq.input) on every call.
CloseEveryCall ==
    /\ closeCalls < MaxCloses
    /\ closeCalls' = closeCalls + 1
    /\ closeOnce' = TRUE /\ closeInput
    /\ UNCHANGED <<capacity, policy, dbl, lenAt, opts, got, shut, cqOutput, cqLength,
                   co, co2, prod, cons, lenq, accepted, delivered,
                   observedClosed>>

\* cq.closeOnce.Do(func() { close(cq.input) })
Close ==
    /\ closeCalls < MaxCloses
    /\ closeCalls' = closeCalls + 1
    /\ IF closeOnce
       THEN UNCHANGED <<closeOnce, cqInput, atClose, inputCloses, closePanic>>
       ELSE closeOnce' = TRUE /\ closeInput
    /\ UNCHANGED <<capacity, policy, dbl, lenAt, opts, got, shut, cqOutput, cqLength,
                   co, co2, prod, cons, lenq, accepted, delivered,
                   observedClosed>>

\* The caller closes the channel it handed to WithInput: close(in).
DirectClose ==
    /\ opts.withInput
    /\ ~cqInput.closed
    /\ closeInput
    /\ UNCHANGED <<capacity, policy, dbl, lenAt, opts, got, shut, cqOutput, cqLength,
                   closeOnce, co, co2, prod, cons, lenq, accepted, delivered,
                   closeCalls, observedClosed>>

\* ------------------------------------------------------------- Shutdown()
\* ShutdownClose without closeOnce: close(cq.input) on every call.
ShutdownCloseEveryCall ==
    /\ shut.pc \in {"idle", "returned"}
    /\ shut.calls < MaxShutdowns
    /\ shut' = [shut EXCEPT !.pc = IF cqInput.closed
                                   THEN "panicked" ELSE "draining",
                            !.calls = @ + 1]
    /\ closeCalls' = closeCalls + 1
    /\ closeOnce' = TRUE /\ closeInput
    /\ UNCHANGED <<capacity, policy, dbl, lenAt, opts, got, cqOutput, cqLength,
                   co, co2, prod, cons, lenq, accepted, delivered,
                   observedClosed>>

\* cq.Close(), the first statement of Shutdown, on a first call or on one
\* made after an earlier call returned. When close(cq.input) panics the call
\* goes no further.
ShutdownClose ==
    /\ shut.pc \in {"idle", "returned"}
    /\ shut.calls < MaxShutdowns
    /\ shut' = [shut EXCEPT !.pc = IF ~closeOnce /\ cqInput.closed
                                   THEN "panicked" ELSE "draining",
                            !.calls = @ + 1]
    /\ closeCalls' = closeCalls + 1
    /\ IF closeOnce
       THEN UNCHANGED <<closeOnce, cqInput, atClose, inputCloses, closePanic>>
       ELSE closeOnce' = TRUE /\ closeInput
    /\ UNCHANGED <<capacity, policy, dbl, lenAt, opts, got, cqOutput, cqLength,
                   co, co2, prod, cons, lenq, accepted, delivered,
                   observedClosed>>

\* for range cq.output { }: the goroutine's case output <- next hands an
\* item to the loop, which throws it away.
ShutdownDrain ==
    /\ shut.pc = "draining"
    /\ co.pc = "select"
    /\ co.output # NIL
    /\ shut' = [shut EXCEPT !.drained = @ + 1]
    /\ co' = [Sent(policy, co) EXCEPT !.pc = "update"]
    /\ co2' = Shadow([Sent("ringBufferData", co2) EXCEPT !.pc = "update"])
    /\ UNCHANGED <<capacity, policy, dbl, lenAt, opts, got, cqInput, cqOutput, cqLength,
                   closeOnce, prod, cons, lenq, accepted, delivered, atClose,
                   closeCalls, inputCloses, closePanic, observedClosed>>

\* The range loop ends when cq.output is closed, and Shutdown returns.
ShutdownReturn ==
    /\ shut.pc = "draining"
    /\ cqOutput.closed
    /\ shut' = [shut EXCEPT !.pc = "returned"]
    /\ UNCHANGED <<capacity, policy, dbl, lenAt, opts, got, cqInput, cqOutput, cqLength,
                   closeOnce, co, co2, prod, cons, lenq, accepted, delivered,
                   atClose, closeCalls, inputCloses, closePanic, observedClosed>>

\* ------------------------------------------------------------ TestDouble
\* The forwarding goroutine holds a value it read from ch.Out() and has not
\* yet sent to recvCh.In().
Holding == cons[1] = "idle" /\ Len(delivered) = dbl.fwd + 1

\* ch.Close() once the writing loop is through.
WriterClose ==
    /\ prod[1].pc = "idle"
    /\ prod[1].n = opts.items
    /\ closeCalls = 0
    /\ Close

\* for val := range ch.Out(): the next receive of the forwarding goroutine.
ForwardRange ==
    /\ Len(delivered) = dbl.fwd
    /\ ReadStart(1)

\* recvCh.In() <- i meets recvCh's case elem, open := <-input.
ForwardSend ==
    /\ Holding
    /\ ~dbl.inClosed
    /\ dbl.co.pc = "select"
    /\ dbl.co.input # NIL
    /\ dbl' = [dbl EXCEPT
                 !.co = [bufferDataRecv(@, delivered[dbl.fwd + 1], TRUE)
                            EXCEPT !.pc = "update"],
                 !.fwd = @ + 1]
    /\ UNCHANGED <<capacity, policy, lenAt, opts, got, shut, cqInput, cqOutput,
                   cqLength, closeOnce, co, co2, prod, cons, lenq, accepted,
                   delivered, atClose, closeCalls, inputCloses, closePanic,
                   observedClosed>>

\* recvCh.Close() after the range over ch.Out() has ended.
ForwardClose ==
    /\ cons[1] = "eos"
    /\ ~dbl.inClosed
    /\ dbl' = [dbl EXCEPT !.inClosed = TRUE]
    /\ UNCHANGED <<capacity, policy, lenAt, opts, got, shut, cqInput, cqOutput,
                   cqLength, closeOnce, co, co2, prod, cons, lenq, accepted,
                   delivered, atClose, closeCalls, inputCloses, closePanic,
                   observedClosed>>

\* recvCh's goroutine sees its input channel closed.
DoubleRecvClosed ==
    /\ dbl.co.pc = "select"
    /\ dbl.co.input # NIL
    /\ dbl.inClosed
    /\ dbl' = [dbl EXCEPT !.co = [bufferDataRecv(@, zero, FALSE)
                                     EXCEPT !.pc = "update"]]
    /\ UNCHANGED <<capacity, policy, lenAt, opts, got, shut, cqInput, cqOutput,
                   cqLength, closeOnce, co, co2, prod, cons, lenq, accepted,
                   delivered, atClose, closeCalls, inputCloses, closePanic,
                   observedClosed>>

\* recvCh's case output <- next meets the test's range over recvCh.Out().
DoubleSend ==
    /\ dbl.co.pc = "select"
    /\ dbl.co.output # NIL
    /\ dbl.rd = "receiving"
    /\ dbl' = [dbl EXCEPT !.out = Append(@, dbl.co.next),
                          !.co = [bufferDataSent(@) EXCEPT !.pc = "update"]]
    /\ UNCHANGED <<capacity, policy, lenAt, opts, got, shut, cqInput, cqOutput,
                   cqLength, closeOnce, co, co2, prod, cons, lenq, accepted,
                   delivered, atClose, closeCalls, inputCloses, closePanic,
                   observedClosed>>

\* recvCh's goroutine after its select, and its loop test.
DoubleUpdate ==
    /\ dbl.co.pc = "update"
    /\ dbl' = [dbl EXCEPT !.co = LoopTest(bufferDataAfter(@, dbl.capacity))]
    /\ UNCHANGED <<capacity, policy, lenAt, opts, got, shut, cqInput, cqOutput,
                   cqLength, closeOnce, co, co2, prod, cons, lenq, accepted,
                   delivered, atClose, closeCalls, inputCloses, closePanic,
                   observedClosed>>

\* recvCh's goroutine: close(cq.output)
DoubleCloseOutput ==
    /\ dbl.co.pc = "closeOutput"
    /\ dbl' = [dbl EXCEPT !.outClosed = TRUE, !.co.pc = "closeLength"]
    /\ UNCHANGED <<capacity, policy, lenAt, opts, got, shut, cqInput, cqOutput,
                   cqLength, closeOnce, co, co2, prod, cons, lenq, accepted,
                   delivered, atClose, closeCalls, inputCloses, closePanic,
                   observedClosed>>

\* recvCh's goroutine: close(cq.length), and it returns.
DoubleCloseLength ==
    /\ dbl.co.pc = "closeLength"
    /\ dbl' = [dbl EXCEPT !.co.pc = "done"]
    /\ UNCHANGED <<capacity, policy, lenAt, opts, got, shut, cqInput, cqOutput,
                   cqLength, closeOnce, co, co2, prod, cons, lenq, accepted,
                   delivered, atClose, closeCalls, inputCloses, closePanic,
                   observedClosed>>

\* The test's range over recvCh.Out() ends on the closed channel.
DoubleEOS ==
    /\ dbl.rd = "receiving"
    /\ dbl.outClosed
    /\ dbl' = [dbl EXCEPT !.rd = "eos"]
    /\ UNCHANGED <<capacity, policy, lenAt, opts, got, shut, cqInput, cqOutput,
                   cqLength, closeOnce, co, co2, prod, cons, lenq, accepted,
                   delivered, atClose, closeCalls, inputCloses, closePanic,
                   observedClosed>>

Next ==
    \/ \E p \in Producers : WriteStart(p)
    \/ \E p \in Producers : ChanEnqueue(p)
    \/ \E p \in Producers : WritePanic(p)
    \/ \E p \in Producers : CoordRecv(p)
    \/ CoordRecvBuf
    \/ CoordRecvClosed
    \/ \E c \in Consumers : CoordSend(c)
    \/ CoordLen
    \/ CoordUpdate
    \/ CoordCloseOutput
    \/ CoordCloseLength
    \/ \E c \in Consumers : ReadStart(c)
    \/ \E c \in Consumers : ReadEOS(c)
    \/ LenStart
    \/ LenClosed
    \/ Close

Spec == Init /\ [][Next]_vars

SpecEq == InitEq /\ [][Next]_vars

SpecOpts == InitOpts /\ [][Next]_vars

\* On an unbuffered cq.input every send is a rendezvous with the goroutine:
\* the steps through the channel's own buffer do not exist.
NextFresh ==
    \/ \E p \in Producers : WriteStart(p)
    \/ \E p \in Producers : WritePanic(p)
    \/ \E p \in Producers : CoordRecv(p)
    \/ CoordRecvClosed
    \/ \E c \in Consumers : CoordSend(c)
    \/ CoordLen
    \/ CoordUpdate
    \/ CoordCloseOutput
    \/ CoordCloseLength
    \/ \E c \in Consumers : ReadStart(c)
    \/ \E c \in Consumers : ReadEOS(c)
    \/ LenStart
    \/ LenClosed
    \/ Close

SpecFresh == InitFresh /\ [][NextFresh]_vars

\* Producers, consumers, the goroutine and Close(); nobody calls Len().
NextMulti ==
    \/ \E p \in Producers : WriteStart(p)
    \/ \E p \in Producers : ChanEnqueue(p)
    \/ \E p \in Producers : WritePanic(p)
    \/ \E p \in Producers : CoordRecv(p)
    \/ CoordRecvBuf
    \/ CoordRecvClosed
    \/ \E c \in Consumers : CoordSend(c)
    \/ CoordUpdate
    \/ CoordCloseOutput
    \/ CoordCloseLength
    \/ \E c \in Consumers : ReadStart(c)
    \/ \E c \in Consumers : ReadEOS(c)
    \/ Close

SpecMulti == InitMulti /\ [][NextMulti]_vars

\* A handle whose supplied input channel the caller closes itself; Close()
\* is never called.
NextDirect ==
    \/ \E p \in Producers : WriteStart(p)
    \/ \E p \in Producers : ChanEnqueue(p)
    \/ \E p \in Producers : WritePanic(p)
    \/ \E p \in Producers : CoordRecv(p)
    \/ CoordRecvBuf
    \/ CoordRecvClosed
    \/ \E c \in Consumers : CoordSend(c)
    \/ CoordLen
    \/ CoordUpdate
    \/ CoordCloseOutput
    \/ CoordCloseLength
    \/ \E c \in Consumers : ReadStart(c)
    \/ \E c \in Consumers : ReadEOS(c)
    \/ LenStart
    \/ LenClosed
    \/ DirectClose

SpecDirect == InitSupplied /\ [][NextDirect]_vars

\* TestDouble: a writer into ch, which closes it after its last write, a
\* goroutine forwarding from ch to recvCh, and a reader of recvCh.
NextDouble ==
    \/ WriteStart(1)
    \/ CoordRecv(1)
    \/ CoordRecvClosed
    \/ CoordSend(1)
    \/ CoordUpdate
    \/ CoordCloseOutput
    \/ CoordCloseLength
    \/ ReadEOS(1)
    \/ WriterClose
    \/ ForwardRange
    \/ ForwardSend
    \/ ForwardClose
    \/ DoubleRecvClosed
    \/ DoubleSend
    \/ DoubleUpdate
    \/ DoubleCloseOutput
    \/ DoubleCloseLength
    \/ DoubleEOS

SpecDouble == InitDouble /\ [][NextDouble]_vars

\* Every goroutine that can take a step is scheduled in the end.
FairSpecDouble == SpecDouble /\ WF_vars(NextDouble)

\* A handle on which one goroutine also calls Shutdown().
NextShutdown ==
    \/ Next
    \/ ShutdownClose
    \/ ShutdownDrain
    \/ ShutdownReturn

SpecShutdown == Init /\ [][NextShutdown]_vars

\* Teardown of a handle by Shutdown(), by Close(), or by the caller's own
\* close of the channel it supplied, with a producer and a reader at work.
NextTeardown ==
    \/ WriteStart(1)
    \/ ChanEnqueue(1)
    \/ WritePanic(1)
    \/ CoordRecv(1)
    \/ CoordRecvBuf
    \/ CoordRecvClosed
    \/ CoordSend(1)
    \/ CoordUpdate
    \/ CoordCloseOutput
    \/ CoordCloseLength
    \/ ReadStart(1)
    \/ ReadEOS(1)
    \/ Close
    \/ DirectClose
    \/ ShutdownClose
    \/ ShutdownDrain
    \/ ShutdownReturn

SpecTeardown == Init /\ [][NextTeardown]_vars

\* The goroutine is scheduled whenever it can run, and a select with several
\* ready cases picks among them at random, so a case that is ready again and
\* again is taken; a blocked sender or receiver resumes once its channel
\* operation can proceed.
Fairness ==
    /\ WF_vars(CoordUpdate)
    /\ WF_vars(CoordCloseOutput)
    /\ WF_vars(CoordCloseLength)
    /\ SF_vars(\E p \in Producers : CoordRecv(p))
    /\ SF_vars(CoordRecvBuf)
    /\ SF_vars(CoordRecvClosed)
    /\ SF_vars(\E c \in Consumers : CoordSend(c))
    /\ SF_vars(CoordLen)
    /\ WF_vars(\E p \in Producers : ChanEnqueue(p))
    /\ WF_vars(\E p \in Producers : WritePanic(p))
    /\ WF_vars(\E c \in Consumers : ReadEOS(c))
    /\ WF_vars(LenClosed)

FairSpec == Spec /\ Fairness

FairSpecDirect == SpecDirect /\ Fairness

\* One iteration or closing statement of the goroutine, with Shutdown's range
\* loop as one more receiver on cq.output.
CoordStep ==
    \/ CoordRecv(1)
    \/ CoordRecvBuf
    \/ CoordRecvClosed
    \/ CoordSend(1)
    \/ ShutdownDrain
    \/ CoordUpdate
    \/ CoordCloseOutput
    \/ CoordCloseLength

\* The goroutine runs whenever it can take a step, whichever ready case its
\* select picks, and the range loop of Shutdown resumes once cq.output is
\* closed. Nothing is asked of producers, readers or callers of Close().
FairSpecTeardown ==
    /\ SpecTeardown
    /\ WF_vars(CoordStep)
    /\ WF_vars(ShutdownReturn)

\* ------------------------------------------------------------ properties
Bounded == policy = "bufferData" /\ capacity >= 1
AtCapacity == Bounded /\ Len(co.buffer) = capacity

\* C1: blocking-FIFO queue, bounded or not: what the consumer has received is
\* always an initial part of the completed writes, in write order, and when
\* the consumer sees end of stream it has received every completed write.
C1_FifoOrder ==
    policy = "bufferData" =>
        /\ IsPrefix(delivered, Written)
        /\ IsPrefix(accepted \o cqInput.buf, Written)
        /\ (cons[1] = "eos" => delivered = Written)

\* C1 witness: a bounded queue smaller than the stream, all items written,
\* Close() called, and the consumer at end of stream with all of them.
C1_Witness ==
    /\ Bounded /\ capacity < MaxItems
    /\ prod[1].n = MaxItems /\ closeCalls > 0
    /\ cons[1] = "eos" /\ delivered = Written

\* C2 as amended: bounded blocking-FIFO queue with capacity C: the buffer never
\* holds more than C items, Len() never returns more than C, and completed
\* writes minus completed reads never exceed C plus cap of the input channel
\* (0 for the channel New makes itself).
C2_CapacityBound ==
    Bounded =>
        /\ Len(co.buffer) <= capacity
        /\ lenq.result <= capacity
        /\ prod[1].n - Len(delivered) <= capacity + cqInput.cap

\* C2 witness: the buffer is full, Len() has returned C and a writer is held.
C2_Witness ==
    /\ AtCapacity /\ lenq.result = capacity
    /\ prod[1].pc = "sending" /\ cqInput.cap = 0
    /\ prod[1].n - Len(delivered) = capacity

\* C2 as stated: completed writes minus completed reads never exceed C.
C2_Original ==
    Bounded =>
        /\ Len(co.buffer) <= capacity
        /\ lenq.result <= capacity
        /\ prod[1].n - Len(delivered) <= capacity

\* C3 as amended: bounded blocking-FIFO queue holding C items: no step taken
\* while the buffer holds C items makes the goroutine accept an item, the
\* goroutine does not select on input then, and on an unbuffered input
\* channel no write completes then.
C3_BlocksAtCapacity ==
    /\ [](AtCapacity /\ co.pc = "select" => co.input = NIL)
    /\ [][AtCapacity => /\ accepted' = accepted
                        /\ (cqInput.cap = 0 => prod[1].n' = prod[1].n)]_vars

\* C3 witness: C items buffered, a writer blocked on the unbuffered input
\* channel, the goroutine waiting in its select.
C3_Witness ==
    /\ AtCapacity /\ co.pc = "select" /\ cqInput.cap = 0
    /\ prod[1].pc = "sending" /\ ~cqInput.closed

\* C3 as stated: while C items are buffered no write completes.
C3_Original ==
    [][AtCapacity => prod[1].n' = prod[1].n]_vars

\* C4: bounded blocking-FIFO queue: while the input channel has not been seen
\* closed the goroutine selects on input whenever fewer than C items are
\* buffered, and a writer waiting while fewer than C items are buffered
\* completes its write unless the input channel is closed first.
C4_ResumesBelowCapacity ==
    /\ [](Bounded /\ co.pc = "select" /\ observedClosed = 0
            /\ Len(co.buffer) < capacity => co.input # NIL)
    /\ ((Bounded /\ prod[1].pc = "sending" /\ Len(co.buffer) < capacity)
            ~> (prod[1].pc = "idle" \/ cqInput.closed))

\* C4 witness: capacity 1, one item written and read, and the second write
\* has completed with the input channel still open.
C4_Witness ==
    /\ Bounded /\ capacity = 1 /\ cqInput.cap = 0
    /\ Len(delivered) = 1 /\ prod[1].n = 2 /\ ~cqInput.closed

RingLike == policy \in {"ringBufferData", "oneBufferData"}

\* No read completed before Close(), and the consumer then read to the end.
WrittenClosedThenRead ==
    /\ atClose.taken /\ atClose.delivered = 0
    /\ cons[1] = "eos"

\* C5 as amended: ring queue with capacity C, more than C items written with
\* no read completed before Close(), and no written item still held in the
\* input channel's own buffer at Close() (none can be on an unbuffered
\* channel): reading to end of stream yields exactly the last C items
\* written, in the order written.
C5_RingKeepsLastC ==
    RingLike /\ WrittenClosedThenRead /\ prod[1].n > capacity
        /\ atClose.pending = <<>>
    => delivered = LastN(Written, capacity)

\* C5 witness: capacity 2, three items written unread, closed, drained.
C5_Witness ==
    /\ policy = "ringBufferData" /\ WrittenClosedThenRead
    /\ atClose.pending = <<>>
    /\ prod[1].n = capacity + 1 /\ delivered = <<2, 3>>

\* C5 as stated: the same for every input channel (here even with no read
\* begun before Close()).
C5_Original ==
    RingLike /\ WrittenClosedThenRead /\ ~atClose.reading
        /\ prod[1].n > capacity
    => delivered = LastN(Written, capacity)

NoBackpressure == RingLike \/ capacity = -1

\* C6: ring, ring-of-one and unbounded blocking-FIFO queues: at every select
\* before the goroutine has seen the input channel closed it selects on input,
\* whatever it holds, and a sender waiting then can hand its item over at
\* once; the goroutine stops selecting on input only once it saw the close.
C6_NeverBackpressure ==
    NoBackpressure /\ co.pc = "select" =>
        /\ (co.input # NIL <=> observedClosed = 0)
        /\ (/\ prod[1].pc = "sending" /\ ~cqInput.closed
            /\ cqInput.buf = <<>> /\ observedClosed = 0
            => ENABLED CoordRecv(1))

\* C6 witness: a ring on an unbuffered input channel, back at its select
\* after more writes than its capacity completed with nothing read.
C6_Witness ==
    /\ policy = "ringBufferData" /\ co.pc = "select" /\ cqInput.cap = 0
    /\ prod[1].n = MaxItems /\ MaxItems > capacity
    /\ Len(accepted) = MaxItems /\ delivered = <<>> /\ ~cqInput.closed

\* C7: oneBufferData and ringBufferData with capacity 1, fed the same events:
\* they are at the same place, hold the same items, and at every select they
\* offer the same cases with the same value on output and on length.
C7_OneEqualsRing ==
    /\ co2.pc = co.pc
    /\ Buffered("oneBufferData", co) = Buffered("ringBufferData", co2)
    /\ LengthValue("oneBufferData", co) = LengthValue("ringBufferData", co2)
    /\ (co.pc = "select" =>
          /\ (co.input = NIL <=> co2.input = NIL)
          /\ (co.output = NIL <=> co2.output = NIL)
          /\ (co.output # NIL => co.next = co2.next))

\* C7 witness: an item was overwritten unread, the newer one was delivered,
\* Len() was answered and both goroutines have returned.
C7_Witness ==
    /\ co2.pc = "done" /\ co.pc = "done"
    /\ Len(accepted) = MaxItems /\ delivered = <<2, 3>>
    /\ lenq.result = 1

\* The items delivered since cq.input was closed.
DeliveredAfterClose ==
    SubSeq(delivered, atClose.delivered + 1, Len(delivered))

\* After Close() the reads return the items buffered at Close(), oldest
\* first, and cq.output is closed only once all of them were delivered and
\* nothing is left in the buffer.
DrainsBuffered ==
    /\ \/ IsPrefix(DeliveredAfterClose, atClose.buffer)
       \/ IsPrefix(atClose.buffer, DeliveredAfterClose)
    /\ cqOutput.closed => /\ IsPrefix(atClose.buffer, DeliveredAfterClose)
                          /\ Buffered(policy, co) = <<>>

\* C8 as amended: for the blocking-FIFO policy, and for the ring policies when
\* the input channel holds no item of its own at Close() (an unbuffered one
\* never does): after Close() reads return every item buffered at Close(), in
\* order; cq.output is closed only after the last of them was delivered; and
\* if the consumer keeps reading, cq.output is eventually closed.
C8_CloseDrains ==
    /\ [](atClose.taken /\ (policy = "bufferData" \/ atClose.pending = <<>>)
            => DrainsBuffered)
    /\ ([]<>(cons[1] # "idle") => (atClose.taken ~> cqOutput.closed))

\* C8 witness: Close() with two items buffered, both then read in order, and
\* cq.output closed.
C8_Witness ==
    /\ atClose.taken /\ Len(atClose.buffer) = 2
    /\ DeliveredAfterClose = atClose.buffer /\ cqOutput.closed

\* C8 as stated: the same for every policy and input channel.
C8_Original == atClose.taken => DrainsBuffered

\* C9: a write begun after Close() was called panics and its item is never
\* enqueued, neither in the input channel nor in the goroutine's buffer; on
\* an unbuffered input channel the goroutine accepts nothing once Close() was
\* called.
C9_WriteAfterClosePanics ==
    /\ [](prod[1].late =>
            /\ prod[1].pc = "panicked"
            /\ Item(1, prod[1].n + 1) \notin
                   Range(accepted) \cup Range(cqInput.buf))
    /\ [][closeCalls > 0 /\ cqInput.cap = 0 => accepted' = accepted]_vars

\* C9 witness: on an unbuffered input channel one item was accepted, Close()
\* was called, and the next write, begun after it, has panicked.
C9_Witness ==
    /\ cqInput.cap = 0 /\ accepted = <<1>> /\ closeCalls > 0
    /\ prod[1].late /\ prod[1].pc = "panicked" /\ prod[1].n = 1

\* What Close() may change besides the count of its calls.
closeEffects ==
    <<capacity, policy, cqInput, cqOutput, cqLength, closeOnce, co, co2,
      prod, cons, lenq, accepted, delivered, atClose, inputCloses,
      closePanic, observedClosed, opts, got, shut, lenAt, dbl>>

\* C10: however often Close() is called, close(cq.input) is executed exactly
\* once, nothing panics, and a call after the first changes nothing.
C10_CloseIdempotent ==
    /\ [](/\ ~closePanic
          /\ inputCloses <= 1
          /\ (closeCalls >= 1 => inputCloses = 1 /\ cqInput.closed))
    /\ [][closeCalls >= 1 /\ closeCalls' > closeCalls
            => UNCHANGED closeEffects]_vars

\* C10 witness: Close() was called more than once, the second time after the
\* goroutine had already returned.
C10_Witness ==
    /\ closeCalls = MaxCloses /\ MaxCloses >= 2
    /\ inputCloses = 1 /\ cqInput.closed /\ co.pc = "done"

\* C11: in every state in which a Shutdown() call has returned, the goroutine
\* has closed cq.output and cq.length and has returned.
C11_ShutdownTerminated ==
    shut.pc = "returned" =>
        /\ cqOutput.closed
        /\ cqLength.closed
        /\ co.pc = "done"

\* The goroutine has left its loop.
Exited == co.pc \in {"closeOutput", "closeLength", "done"}
\* The goroutine has seen cq.input closed and holds no item.
ClosedAndEmpty == observedClosed >= 1 /\ Buffered(policy, co) = <<>>

\* C12: the goroutine leaves its loop and closes cq.output exactly when it
\* has seen cq.input closed and holds no item: it is never at a select in
\* that situation, and cq.output is never closed while cq.input is open or
\* an item is still held.
C12_ExitsIffClosedAndEmpty ==
    /\ Exited => ClosedAndEmpty
    /\ cqOutput.closed => Exited
    /\ co.pc = "select" => ~ClosedAndEmpty
    /\ ~cqInput.closed => ~cqOutput.closed /\ ~Exited
    /\ Buffered(policy, co) # <<>> => ~cqOutput.closed /\ ~Exited

\* The goroutine has closed cq.output after holding items past the close.
C12_Witness ==
    /\ cqOutput.closed
    /\ atClose.taken /\ atClose.buffer # <<>>
    /\ Len(delivered) >= 2

\* C13: whatever the constructor and the capacity, a channel handed to
\* WithInput is the cq.input the goroutine receives from, and a channel handed
\* to WithOutput is the cq.output it sends on and closes.
C13_SuppliedEndpointsUsed ==
    /\ opts.withInput => opts.input = "in"
    /\ opts.withOutput => opts.output = "out"

\* What Cap() has to return for the capacity the constructor was asked for.
CapFor(req) == IF req < 1 THEN -1 ELSE req

Min(a, b) == IF a <= b THEN a ELSE b

\* C16: on channels the constructor made, a Len() answered after w completed
\* writes and r completed reads returns w - r with bufferData, and min(w, C)
\* with a ring goroutine when nothing was read. With capacity C, w - r never
\* exceeds C (the write after the C-th waits for a read), and the first read
\* yields the first item written. (TestCap = 3: 0, 1, 2 before the first three
\* writes, and 3 after the fourth write that followed one read.)
C16_SequentialLen ==
    /\ lenq.result # -1 /\ policy = "bufferData" =>
          lenq.result = lenAt.w - lenAt.r
    /\ lenq.result # -1 /\ policy # "bufferData" /\ lenAt.r = 0 =>
          lenq.result = Min(lenAt.w, capacity)
    /\ Bounded => prod[1].n - Len(delivered) <= capacity
    /\ policy = "bufferData" /\ delivered # <<>> => delivered[1] = Item(1, 1)

\* Capacity 3: one read let the fourth write complete, and the Len() answered
\* after it returned 3.
C16_Witness ==
    /\ policy = "bufferData" /\ capacity = TestCap
    /\ prod[1].n = TestCap + 1
    /\ Len(delivered) = 1
    /\ lenq.pc = "idle"
    /\ lenAt.w = TestCap + 1 /\ lenAt.r = 1
    /\ lenq.result = TestCap

\* C17: with a producer, a consumer and a Len() caller running at once, the
\* value a Len() call returns is the number of items the goroutine holds at
\* the moment it answers: never negative, never above the items accepted less
\* the items delivered at that moment, and never above the capacity (a ring
\* never shows C + 1).
C17_LenIsOccupancy ==
    [][lenq.pc = "waiting" /\ lenq'.pc = "idle" =>
          /\ lenq'.result = Len(Buffered(policy, co))
          /\ Buffered(policy, co') = Buffered(policy, co)
          /\ lenq'.result >= 0
          /\ lenq'.result <= Len(accepted) - Len(delivered)
          /\ (policy = "bufferData" =>
                lenq'.result = Len(accepted) - Len(delivered))
          /\ (capacity >= 1 => lenq'.result <= capacity)]_vars

\* A ring at capacity answered Len() after it had evicted an item, while a
\* write and a read were both under way.
C17_Witness ==
    /\ policy # "bufferData"
    /\ lenAt.w > capacity /\ lenAt.r = 0
    /\ lenq.pc = "idle" /\ lenq.result = capacity
    /\ prod[1].pc = "sending"
    /\ cons[1] = "receiving"

\* C18: every Len() call returns. At each select the goroutine can answer a
\* waiting caller, whatever the state of its input and output cases, and
\* once it has returned cq.length is closed, so that under fair scheduling a
\* waiting caller always gets its value: also at capacity with nobody
\* reading, and also after Close().
C18_LenReturns ==
    /\ [](co.pc = "select" /\ lenq.pc = "waiting" => ENABLED CoordLen)
    /\ [](co.pc = "done" => cqLength.closed)
    /\ (lenq.pc = "waiting" ~> lenq.pc = "idle")

\* Len() was answered by a full bufferData (its input case switched off)
\* that no consumer has ever read from.
C18_Witness ==
    /\ Bounded
    /\ lenq.pc = "idle" /\ lenq.result = capacity
    /\ co.pc = "select" /\ co.input = NIL
    /\ cons[1] = "idle" /\ delivered = <<>>
    /\ prod[1].pc = "sending"

\* The items producer p has written (its completed sends).
ItemsOf(p) == {Item(p, i) : i \in 1..prod[p].n}
\* The items of producer p in s, in the order they have in s.
FromProducer(s, p) == SelectSeq(s, LAMBDA x : x \in {Item(p, i) : i \in 1..MaxItems})
\* The first k items producer p writes, in write order.
FirstOf(p, k) == [i \in 1..k |-> Item(p, i)]
NoRepeat(s) == Cardinality(Range(s)) = Len(s)

\* C19: two producers and two consumers on one bufferData handle. Every item
\* delivered is a completed write and goes to one consumer, once; when
\* cq.output is closed every completed write has been delivered; and the
\* items of one producer are delivered in the order it wrote them.
C19_ExactlyOnce ==
    policy = "bufferData" =>
        /\ NoRepeat(delivered)
        /\ Range(delivered) \subseteq UNION {ItemsOf(p) : p \in Producers}
        /\ Len(got[1]) + Len(got[2]) = Len(delivered)
        /\ Range(got[1]) \cup Range(got[2]) = Range(delivered)
        /\ Range(got[1]) \cap Range(got[2]) = {}
        /\ (cqOutput.closed =>
              Range(delivered) = UNION {ItemsOf(p) : p \in Producers})
        /\ \A p \in Producers :
              /\ FromProducer(delivered, p)
                    = FirstOf(p, Len(FromProducer(delivered, p)))
              /\ \A c \in Consumers :
                    LET s == FromProducer(got[c], p)
                    IN  \A i, j \in 1..Len(s) : i < j => s[i] < s[j]

\* Both producers wrote all their items, interleaved, both consumers received
\* some of them, and cq.output is closed.
C19_Witness ==
    /\ policy = "bufferData"
    /\ cqOutput.closed
    /\ prod[1].n = MaxEach /\ prod[2].n = MaxEach
    /\ Len(delivered) = 2 * MaxEach
    /\ got[1] # <<>> /\ got[2] # <<>>
    /\ delivered[1] \in ItemsOf(2) /\ delivered[2] \in ItemsOf(1)

\* After the close of cq.input the reads return what the goroutine held and
\* then what the channel itself held, oldest first, and cq.output is closed
\* only once all of that was delivered.
DrainsAll ==
    LET left == atClose.buffer \o atClose.pending
    IN  /\ IsPrefix(DeliveredAfterClose, left)
        /\ cqOutput.closed => DeliveredAfterClose = left
                                /\ Buffered(policy, co) = <<>>

\* C20 as amended: the caller closes the channel it supplied as input and
\* never calls Close(). With bufferData, and with a ring goroutine when the
\* channel holds no item of its own at that moment, the items the goroutine
\* holds and then the items the channel holds are read from cq.output in
\* order, and cq.output is closed only after the last of them; if the consumer
\* keeps reading, cq.output is closed in the end, under every policy.
C20_DirectCloseDrains ==
    /\ [](atClose.taken => closeCalls = 0 /\ ~closeOnce /\ cqInput.closed)
    /\ [](atClose.taken /\ (policy = "bufferData" \/ atClose.pending = <<>>)
            => DrainsAll)
    /\ ([]<>(cons[1] # "idle") => (atClose.taken ~> cqOutput.closed))

\* The supplied channel was closed directly while the goroutine held an item
\* and the channel another; both were read in order and cq.output is closed.
C20_Witness ==
    /\ atClose.taken /\ closeCalls = 0
    /\ atClose.buffer # <<>> /\ atClose.pending # <<>>
    /\ DeliveredAfterClose = atClose.buffer \o atClose.pending
    /\ cqOutput.closed

\* C20 as stated: the same under every policy and whatever the channel holds.
C20_Original == atClose.taken => DrainsAll

\* The goroutine is at a select whose case output <- next is switched on.
Offering == co.pc = "select" /\ co.output # NIL

\* C21: a completed write is not at once readable. Whenever the goroutine
\* holds an item without offering it, it is between the select that took the
\* item and its next select, and a receiver on cq.output gets nothing in that
\* state (cq.output is not closed either); such a state is reached right
\* after a write completes.
C21_NotYetOffered ==
    Buffered(policy, co) # <<>> /\ ~Offering =>
        /\ co.pc = "update"
        /\ ~cqOutput.closed
        /\ \A c \in Consumers : ~ENABLED CoordSend(c) /\ ~ENABLED ReadEOS(c)

\* The first write has completed, the goroutine holds its item but does not
\* offer it yet, and a reader is waiting on cq.output with nothing received.
C21_Witness ==
    /\ prod[1].n = 1 /\ prod[1].pc = "idle"
    /\ Buffered(policy, co) = <<Item(1, 1)>>
    /\ ~Offering
    /\ cons[1] = "receiving" /\ delivered = <<>>

\* The number of the select's events that happen in a step (a Len() caller
\* released by the closed cq.length is not one).
Serviced ==
    (IF accepted' # accepted THEN 1 ELSE 0)
    + (IF observedClosed' # observedClosed THEN 1 ELSE 0)
    + (IF delivered' # delivered THEN 1 ELSE 0)
    + (IF lenq.pc = "waiting" /\ lenq'.pc = "idle" /\ ~cqLength.closed
       THEN 1 ELSE 0)

\* C22: bufferData starts with its input case on and its output case off.
\* At every select, output is on exactly when the deque is not empty, and
\* then next is the deque's front; input is on exactly when the close has not
\* been seen and there is no limit or the deque is below capacity; a waiting
\* Len() caller can always be answered; and leaving the select services
\* exactly one case.
C22_EnabledSet ==
    /\ (policy = "bufferData" => co.input # NIL /\ co.output = NIL)
    /\ [](policy = "bufferData" /\ co.pc = "select" =>
            /\ (co.output # NIL <=> Len(co.buffer) > 0)
            /\ (co.output # NIL => co.next = Front(co.buffer))
            /\ (co.input # NIL <=>
                  /\ observedClosed = 0
                  /\ (capacity = -1 \/ Len(co.buffer) < capacity))
            /\ (lenq.pc = "waiting" => ENABLED CoordLen))
    /\ [][policy = "bufferData" /\ co.pc = "select" /\ co'.pc # "select" =>
            co'.pc = "update" /\ Serviced = 1]_vars
    /\ [][policy = "bufferData" /\ co.pc # "select" => Serviced = 0]_vars

\* A full bufferData at a select, input off and output on, after it has
\* serviced a receive, a send and a length query.
C22_Witness ==
    /\ Bounded /\ co.pc = "select"
    /\ co.input = NIL /\ co.output # NIL /\ observedClosed = 0
    /\ Len(co.buffer) = capacity
    /\ Len(delivered) >= 1
    /\ lenq.result >= 1

\* C23: once the goroutine has seen cq.input closed its input case stays
\* off for good: with a limit, the test that switches input back on below
\* capacity finds inputChan nil; and the close is seen at most once.
C23_ClosedStaysOff ==
    /\ observedClosed <= 1
    /\ observedClosed >= 1 =>
          /\ co.input = NIL
          /\ (policy = "bufferData" => co.inputChan = NIL)
          /\ cqInput.closed
          /\ \A p \in Producers : ~ENABLED CoordRecv(p)
          /\ ~ENABLED CoordRecvBuf /\ ~ENABLED CoordRecvClosed

\* A bufferData with a limit saw the close and is back at a select, holding
\* items but fewer than its capacity, after a read made room.
C23_Witness ==
    /\ Bounded /\ observedClosed = 1
    /\ co.pc = "select"
    /\ Len(co.buffer) > 0 /\ Len(co.buffer) < capacity
    /\ Len(atClose.buffer) = capacity
    /\ Len(delivered) > atClose.delivered

\* The items the goroutine received and neither holds nor has delivered:
\* the ones it threw away (all items are different).
Evicted == Range(accepted) \ (Range(delivered) \cup Range(Buffered(policy, co)))

\* s lists items of one producer in the order they were written.
InWriteOrder(s) == \A i, j \in 1..Len(s) : i < j => s[i] < s[j]

\* C24: ring goroutines with one producer and one consumer. What is delivered
\* is a selection of the items written, in write order. An item is thrown
\* away only by the receipt of an item while capacity items are held, it is
\* then the oldest item held, and it is never delivered later; what a read
\* gets is always the oldest item held at that moment.
C24_RingEvictsOldest ==
    /\ [](RingLike =>
            /\ InWriteOrder(delivered)
            /\ Range(delivered) \subseteq Range(Written)
            /\ Evicted \cap Range(delivered) = {})
    /\ [][RingLike =>
            /\ Evicted \subseteq Evicted'
            /\ (Evicted' # Evicted =>
                  /\ Len(accepted') = Len(accepted) + 1
                  /\ Len(Buffered(policy, co)) = capacity
                  /\ Evicted' = Evicted \cup {Head(Buffered(policy, co))})
            /\ (delivered' # delivered =>
                  delivered' = Append(delivered, Head(Buffered(policy, co))))]_vars

\* One item more than the capacity was written before the first read, which
\* yielded the second item written: the first, offered until then, was
\* thrown away.
C24_Witness ==
    /\ RingLike /\ cqInput.cap = 0
    /\ Len(accepted) = capacity + 1
    /\ Evicted = {Item(1, 1)}
    /\ delivered = <<Item(1, 2)>>

IsSuffix(s, t) == Len(s) <= Len(t) /\ LastN(t, Len(s)) = s

\* What a ring goroutine holds is within capacity and is the newest part of
\* the sequence all: everything while nothing was read and all is short
\* enough, else the last capacity items of it while nothing was read.
HoldsNewest(all) ==
    /\ Len(Buffered(policy, co)) <= capacity
    /\ IsSuffix(Buffered(policy, co), all)
    /\ (delivered = <<>> => Buffered(policy, co) = LastN(all, capacity))

\* C25 as amended: a ring goroutine with capacity C holds, in every state and
\* so at every select, at most C items, and they are the newest items it has
\* accepted and not delivered (the newest written ones on an unbuffered
\* input channel, where every completed write has been accepted); the value
\* offered to Len() is at most C and the value offered on cq.output is the
\* oldest item held.
C25_RingHoldsNewest ==
    RingLike =>
        /\ HoldsNewest(accepted)
        /\ (cqInput.cap = 0 => HoldsNewest(Written))
        /\ LengthValue(policy, co) = Len(Buffered(policy, co))
        /\ (Offering => co.next = Head(Buffered(policy, co)))

\* A ring on an unbuffered input channel at a select, holding the last two
\* of three items written.
C25_Witness ==
    /\ policy = "ringBufferData" /\ cqInput.cap = 0
    /\ co.pc = "select"
    /\ prod[1].n = capacity + 1
    /\ co.buffer = <<Item(1, 2), Item(1, 3)>>

\* C25 as stated: at every select the items held are the newest written ones,
\* whatever the input channel.
C25_Original ==
    RingLike /\ co.pc = "select" => HoldsNewest(Written)

\* The goroutine is at a select whose case <-input is switched on.
Accepting == co.pc = "select" /\ co.input # NIL

\* C26: while the goroutine runs nobody starves. A consumer waiting on
\* cq.output while an item is held gets an item, and a producer waiting on
\* cq.input at a select whose input case is on has its item taken (unless the channel
\* is closed under it), however often the other cases of the select are
\* ready.
C26_NoStarvation ==
    /\ (cons[1] = "receiving" /\ Buffered(policy, co) # <<>>
          ~> cons[1] = "idle")
    /\ (prod[1].pc = "sending" /\ Accepting /\ ~cqInput.closed
          ~> prod[1].pc = "idle" \/ cqInput.closed)

\* A producer's item was taken, and a consumer was handed an item, both
\* after Len() had been answered with items held.
C26_Witness ==
    /\ lenq.result >= 1
    /\ lenq.pc = "waiting"
    /\ prod[1].n = MaxItems
    /\ Len(delivered) >= 2
    /\ ~cqInput.closed

\* C27: TestDouble with two bufferData queues of limited capacity. What the
\* reader of recvCh has received is always an initial part of what was
\* written to ch; at its end of stream it has received all MaxItems items, in
\* order; as long as it has not seen end of stream some goroutine can take a
\* step (no deadlock), and with every goroutine scheduled it does see end of
\* stream, also where MaxItems exceeds the two capacities together.
C27_ChainDelivers ==
    /\ [](/\ IsPrefix(dbl.out, Written)
          /\ IsPrefix(dbl.out, delivered)
          /\ Len(co.buffer) <= capacity
          /\ Len(dbl.co.buffer) <= dbl.capacity
          /\ ~closePanic /\ prod[1].pc # "panicked"
          /\ (dbl.rd = "eos" => dbl.out = FirstOf(1, MaxItems))
          /\ (dbl.rd # "eos" => ENABLED NextDouble))
    /\ <>(dbl.rd = "eos")

\* Two queues of capacity 1 each passed on three items, and the reader of
\* recvCh saw them all and then end of stream.
C27_Witness ==
    /\ capacity + dbl.capacity < MaxItems
    /\ dbl.rd = "eos"
    /\ dbl.out = Written /\ Len(dbl.out) = MaxItems

\* C28: Len() can be answered all through the close. Until the goroutine
\* leaves its loop every select can answer a waiting caller, and the answer is
\* the number of items held, also after Close(); once the goroutine has
\* returned cq.length is closed and a caller gets 0 at once.
C28_LenThroughClose ==
    /\ [](/\ (co.pc = "select" /\ lenq.pc = "waiting" => ENABLED CoordLen)
          /\ (co.pc = "done" =>
                /\ cqLength.closed
                /\ (lenq.pc = "waiting" => ENABLED LenClosed))
          /\ (cqLength.closed => co.pc = "done"))
    /\ [][lenq.pc = "waiting" /\ lenq'.pc = "idle" =>
            IF co.pc = "done"
            THEN lenq'.result = 0
            ELSE /\ co.pc = "select"
                 /\ lenq'.result = Len(Buffered(policy, co))]_vars

\* Close() was called before anything was read; after a read, with an item
\* still held, Len() was answered with the number of items left.
C28_Witness ==
    /\ atClose.taken /\ atClose.delivered = 0
    /\ lenAt.r >= 1
    /\ lenq.pc = "idle" /\ lenq.result >= 1
    /\ lenq.result = Len(Buffered(policy, co))
    /\ observedClosed = 1

\* The goroutine's locals at its next select, were it to come from s.
NextSelect(s) == LoopTest(After(policy, capacity, [s EXCEPT !.pc = "update"]))

\* C29: answering Len() changes nothing, in any of the three goroutines. The
\* step that answers leaves the items held, next, input and output as they
\* are, nothing is received or delivered by it, and the statements after the
\* select bring the goroutine back to the very select it came from.
C29_LenChangesNothing ==
    /\ [][lenq.pc = "waiting" /\ lenq'.pc = "idle" /\ co.pc = "select" =>
            /\ [co' EXCEPT !.pc = "select"] = co
            /\ NextSelect(co') = co
            /\ Buffered(policy, co') = Buffered(policy, co)
            /\ accepted' = accepted /\ delivered' = delivered
            /\ cqInput' = cqInput /\ cqOutput' = cqOutput]_vars
    /\ [](co.pc = "select" => NextSelect(co) = co)

\* The goroutine has just answered Len() while it held an item, with both
\* its input and its output case on.
C29_Witness ==
    /\ co.pc = "update"
    /\ lenq.pc = "idle" /\ lenq.result >= 1
    /\ lenAt.w = prod[1].n /\ lenAt.r = Len(delivered)
    /\ observedClosed = 0
    /\ co.input # NIL /\ co.output # NIL

\* The producer's write began before Close() and had not completed when
\* cq.input was closed.
BlockedAtClose ==
    /\ cqInput.closed /\ ~prod[1].late
    /\ prod[1].pc \in {"sending", "panicked"}

\* C30: a write that is still blocked when Close() is called panics, as a
\* write begun after Close() does: the panic is the only step left to it, its
\* item never enters the input channel or the buffer and is never delivered,
\* and under bufferData the items buffered at Close() are still delivered in
\* order before cq.output is closed.
C30_BlockedWriterAborted ==
    /\ [](BlockedAtClose =>
            /\ Item(1, prod[1].n + 1) \notin
                   Range(accepted) \cup Range(cqInput.buf) \cup Range(delivered)
            /\ (prod[1].pc = "sending" => ENABLED WritePanic(1))
            /\ (policy = "bufferData" => DrainsBuffered))
    /\ [][BlockedAtClose =>
            /\ prod'[1].pc \in {"sending", "panicked"}
            /\ prod'[1].n = prod[1].n
            /\ prod'[1].late = prod[1].late]_vars

\* C30 witness: Close() on a full bounded queue while the producer's next
\* write was held back; that write has panicked, the items buffered at
\* Close() were all read in order, and cq.output is closed.
C30_Witness ==
    /\ policy = "bufferData" /\ capacity >= 1 /\ cqInput.cap = 0
    /\ Len(atClose.buffer) = capacity
    /\ ~prod[1].late /\ prod[1].pc = "panicked"
    /\ DeliveredAfterClose = atClose.buffer /\ cqOutput.closed

\* cq.input was closed by the caller's own close(in), and neither Close() nor
\* Shutdown() has been called since.
ClosedDirectly == cqInput.closed /\ ~closeOnce

\* Nothing is held any more, and every item the goroutine accepted went to a
\* reader, was thrown away by Shutdown's loop or, in a ring, was evicted.
AllDiscarded ==
    /\ Buffered(policy, co) = <<>>
    /\ cqInput.buf = <<>>
    /\ Len(delivered) + shut.drained <= Len(accepted)
    /\ policy = "bufferData" => Len(delivered) + shut.drained = Len(accepted)

\* A call of Close() or Shutdown() that finds cq.input closed through
\* closeOnce changes nothing of the queue.
NothingToClose ==
    UNCHANGED <<cqInput, cqOutput, cqLength, closeOnce, co, accepted,
                delivered, inputCloses, closePanic>>

\* C31 as amended: a Shutdown() call made when cq.input is open or was closed
\* by Close() does not panic and returns in the end, under every policy and
\* with a reader at work; when it returns cq.output is closed and nothing is
\* held any more; a Shutdown() or Close() after it panics nowhere, changes
\* nothing of the queue, and the second Shutdown() can return at once.
C31_ShutdownTerminates ==
    /\ [][shut'.calls # shut.calls /\ ~ClosedDirectly =>
            shut'.pc = "draining" /\ closePanic' = closePanic]_vars
    /\ (shut.pc = "draining") ~> (shut.pc = "returned")
    /\ [](shut.pc = "returned" => cqOutput.closed /\ AllDiscarded)
    /\ [](shut.calls >= 2 /\ shut.pc = "draining" => ENABLED ShutdownReturn)
    /\ [][shut.calls >= 1 /\ shut.pc # "panicked"
             /\ closeCalls' # closeCalls /\ shut.pc # "draining" =>
            NothingToClose /\ shut'.pc # "panicked"]_vars
    /\ [][shut.calls >= 2 => shut'.drained = shut.drained]_vars

\* C31 witness: Shutdown() on a handle that held items threw two of them
\* away while a reader took another, returned, was called again and returned
\* again, and Close() was called as well.
C31_Witness ==
    /\ shut.calls = 2 /\ shut.pc = "returned"
    /\ shut.drained >= 2 /\ Len(delivered) >= 1
    /\ closeCalls > shut.calls
    /\ cqOutput.closed

\* C31 as stated: every Shutdown() call returns in the end, from whatever
\* state it is made.
C31_Original == (shut.calls >= 1) ~> (shut.pc = "returned")

====
